---- MODULE Spec2Model ----
(***************************************************************************)
(* Taxi scheduling: construction of the optimisation model.                *)
(*                                                                         *)
(* The module follows src/main.py (TaxiSchedulingModel), src/scenarios.py  *)
(* (find_paths, generate_route_data, the scenario tables) and              *)
(* src/constraints.py (one add_constraints per constraint family).         *)
(*                                                                         *)
(* Conventions.                                                            *)
(*  - Python lists are sequences, tuples are tuples, dicts are functions   *)
(*    (a missing key is a KeyError: the step raises).  Route indices are   *)
(*    1-based here (range(len(routes)) is 0-based in the source).          *)
(*  - A decision variable is named by a tuple: <<"Gamma", i, r>>,          *)
(*    <<"Z", i, j, u>>, <<"rho", i, j>>, <<"t", i, u>>.                    *)
(*  - An emitted constraint is the row the solver receives: every variable *)
(*    on the left with its merged coefficient, the constant on the right.  *)
(*    Rows whose source coefficients are quotients (length/Smax,           *)
(*    length/Smin, Sep/length) are stored multiplied by the positive       *)
(*    denominator, which keeps every coefficient an integer and leaves the *)
(*    set of solutions unchanged; the field "scale" records the factor.    *)
(***************************************************************************)
EXTENDS Integers, Sequences, FiniteSets, TLC

VARIABLES
    scenario,      \* the scenario tables get_scenario returns (aircraft_data, graph_data)
    variables,     \* self.variables: the merged dict built by scenario_setup
    constraints,   \* the rows added to self.model, in emission order
    pending,       \* the constraint classes constraints_setup has still to run
    pc,            \* position in the main flow
    query,         \* arguments of a direct call (find_paths, or one constraint class)
    paths,         \* value a direct find_paths call returned
    path_default,  \* the list object that is the default of find_paths' parameter path
    solver,        \* self.model beside its rows: objective, optimize calls, Status, IIS requests
    first_build    \* the variables and rows of an earlier build from the same inputs

vars == <<scenario, variables, constraints, pending, pc, query, paths,
          path_default, solver, first_build>>

----------------------------------------------------------------------------
(* Bounds of the explored inputs.                                          *)

\* graph nodes of the generated scenarios are 1..NumNodes
NumNodes == 3
\* the edge list of a generated scenario holds at most MaxEdges edges
MaxEdges == 3
\* candidate times quantified over are 0..MaxTime
MaxTime == 4

\* big-M of the disjunctive relaxations
M == 1000000

----------------------------------------------------------------------------
(* Sequence helpers (Python list operations).                              *)

\* x in s
InSeq(x, s) == \E k \in 1..Len(s) : s[k] = x

Range(s) == {s[k] : k \in 1..Len(s)}

RECURSIVE Flatten(_)
\* concatenation of a sequence of sequences (nested for-loops, in order)
Flatten(ss) == IF ss = <<>> THEN <<>> ELSE Head(ss) \o Flatten(Tail(ss))

RECURSIVE SelectInSeq(_, _)
\* [x for x in s if x in keep]
SelectInSeq(s, keep) ==
    IF s = <<>> THEN <<>>
    ELSE IF Head(s) \in keep THEN <<Head(s)>> \o SelectInSeq(Tail(s), keep)
    ELSE SelectInSeq(Tail(s), keep)

RECURSIVE SortedSeq(_)
\* the elements of a finite set of integers in increasing order
SortedSeq(S) ==
    IF S = {} THEN <<>>
    ELSE LET m == CHOOSE x \in S : \A y \in S : x <= y
         IN <<m>> \o SortedSeq(S \ {m})


----------------------------------------------------------------------------
(* src/scenarios.py: route enumeration.                                    *)

RECURSIVE find_paths(_, _, _, _), find_paths_loop(_, _, _, _, _)

\* the for-loop of find_paths over graph_data["edges"], from the k-th edge on;
\* path already ends in start
find_paths_loop(graph_data, start, end, path, k) ==
    IF k > Len(graph_data.edges) THEN <<>>
    ELSE LET edge == graph_data.edges[k]
             new_paths ==
                 IF edge[1] = start /\ ~InSeq(edge[2], path)
                 THEN find_paths(graph_data, edge[2], end, path)
                 ELSE IF edge[2] = start /\ ~InSeq(edge[1], path)
                 THEN find_paths(graph_data, edge[1], end, path)
                 ELSE <<>>
         IN new_paths \o find_paths_loop(graph_data, start, end, path, k + 1)

\* variant: the for-loop entered without the test `start not in nodes`
find_paths_unchecked(graph_data, start, end, path0) ==
    LET path == Append(path0, start)
    IN IF start = end THEN <<path>>
       ELSE find_paths_loop(graph_data, start, end, path, 1)

find_paths(graph_data, start, end, path0) ==
    LET path == Append(path0, start)
    IN IF start = end THEN <<path>>
       ELSE IF start \notin graph_data.nodes THEN <<>>
       ELSE find_paths_loop(graph_data, start, end, path, 1)

\* The invocations of find_paths that one call makes, in call order: each
\* with its start argument, its path after `path = path + [start]`, and
\* whether it went on to the for-loop over the edges.
RECURSIVE find_paths_calls(_, _, _, _), find_paths_calls_loop(_, _, _, _, _)

find_paths_calls_loop(graph_data, start, end, path, k) ==
    IF k > Len(graph_data.edges) THEN <<>>
    ELSE LET edge == graph_data.edges[k]
             new_calls ==
                 IF edge[1] = start /\ ~InSeq(edge[2], path)
                 THEN find_paths_calls(graph_data, edge[2], end, path)
                 ELSE IF edge[2] = start /\ ~InSeq(edge[1], path)
                 THEN find_paths_calls(graph_data, edge[1], end, path)
                 ELSE <<>>
         IN new_calls \o find_paths_calls_loop(graph_data, start, end, path, k + 1)

find_paths_calls(graph_data, start, end, path0) ==
    LET path == Append(path0, start)
        loops == start # end /\ start \in graph_data.nodes
    IN << [start |-> start, path |-> path, loops |-> loops] >>
       \o (IF loops THEN find_paths_calls_loop(graph_data, start, end, path, 1)
           ELSE <<>>)

\* edges = [(path[i], path[i + 1]) for i in range(len(path) - 1)]
path_edges(path) == [k \in 1..(Len(path) - 1) |-> <<path[k], path[k + 1]>>]

RECURSIVE dict_fromkeys(_)
\* list(dict.fromkeys(s)): s without repetitions, first appearances kept in order
dict_fromkeys(s) ==
    IF s = <<>> THEN <<>>
    ELSE LET front == dict_fromkeys(SubSeq(s, 1, Len(s) - 1))
             last == s[Len(s)]
         IN IF InSeq(last, front) THEN front ELSE Append(front, last)

\* find_paths, line 22, path = path + [start]: the sum is a new list bound to
\* the local name; the list object that was passed in (the default object when
\* the caller gave no path) is left as it was
\* variant: the list grown in place (path += [start])
path_object_appended(path, start) == Append(path, start)

path_object_after(path, start) == path

RECURSIVE default_path_at(_, _, _)
\* the default list object of find_paths when the loop of generate_route_data
\* calls find_paths for the k-th aircraft, default being the object before the
\* loop
default_path_at(aircraft_data, default, k) ==
    IF k = 1 THEN default
    ELSE path_object_after(default_path_at(aircraft_data, default, k - 1),
                           aircraft_data.origin[aircraft_data.aircraft[k - 1]])

\* the routes of one aircraft: every path with its induced edges; find_paths
\* is called without a path and takes its default
aircraft_routes(aircraft_data, graph_data, a, default) ==
    LET found == find_paths(graph_data, aircraft_data.origin[a],
                            aircraft_data.destination[a], default)
    IN [k \in 1..Len(found) |-> [nodes |-> found[k], edges |-> path_edges(found[k])]]

\* all_edges of one aircraft: the edges of all its routes, first appearance kept
aircraft_all_edges(routes) ==
    dict_fromkeys(Flatten([k \in 1..Len(routes) |-> routes[k].edges]))

\* list(all_nodes): the endpoints of the aircraft's edges.  The source builds a
\* set of small integers and lists it; CPython lists such a set in increasing
\* order.
aircraft_all_nodes(all_edges) ==
    SortedSeq({e[1] : e \in Range(all_edges)} \cup {e[2] : e \in Range(all_edges)})

generate_route_data(aircraft_data, graph_data, default) ==
    LET fleet == Range(aircraft_data.aircraft)
        turn(a) == CHOOSE k \in 1..Len(aircraft_data.aircraft) :
                       aircraft_data.aircraft[k] = a
        routes == [a \in fleet |->
                      aircraft_routes(aircraft_data, graph_data, a,
                                      default_path_at(aircraft_data, default, turn(a)))]
        all_edges == [a \in fleet |-> aircraft_all_edges(routes[a])]
    IN [routes |-> routes,
        all_edges_per_aircraft |-> all_edges,
        all_nodes_per_aircraft |-> [a \in fleet |-> aircraft_all_nodes(all_edges[a])]]

----------------------------------------------------------------------------
(* src/scenarios.py: the scenario tables.                                  *)

\* Scenario1.get_parameters: aircraft_data
Scenario1_aircraft_data ==
    [aircraft |-> <<1, 2, 3>>,
     departures |-> <<1, 2>>,
     arrivals |-> <<3>>,
     origin |-> (1 :> 1) @@ (2 :> 2) @@ (3 :> 3),
     destination |-> (1 :> 5) @@ (2 :> 5) @@ (3 :> 5),
     PBT |-> (1 :> 10) @@ (2 :> 15),
     ETD |-> (3 :> 30),
     Vi_j |-> (<<1, 2>> :> 30) @@ (<<2, 1>> :> 30)]

\* Scenario1.get_parameters: graph_data
Scenario1_graph_data ==
    [nodes |-> {1, 2, 3, 4, 5},
     edges |-> << <<1, 2>>, <<2, 3>>, <<3, 4>>, <<4, 5>>, <<1, 4>>,
                  <<4, 3>>, <<3, 5>>, <<3, 2>>, <<2, 5>> >>,
     length |-> (<<1, 2>> :> 100) @@ (<<2, 3>> :> 150) @@ (<<3, 4>> :> 200)
                @@ (<<4, 5>> :> 250) @@ (<<1, 4>> :> 180) @@ (<<4, 3>> :> 140)
                @@ (<<3, 5>> :> 220) @@ (<<3, 2>> :> 130) @@ (<<2, 5>> :> 210),
     Smax |-> [e \in { <<1, 2>>, <<2, 3>>, <<3, 4>>, <<4, 5>>, <<1, 4>>,
                       <<4, 3>>, <<3, 5>>, <<3, 2>>, <<2, 5>> } |-> 15],
     Smin |-> [e \in { <<1, 2>>, <<2, 3>>, <<3, 4>>, <<4, 5>>, <<1, 4>>,
                       <<4, 3>>, <<3, 5>>, <<3, 2>>, <<2, 5>> } |-> 5],
     runway_edges |-> << <<4, 5>> >>,
     Sep |-> 5]

\* Scenario1.get_parameters: the route_data written out by hand (it has no
\* "all_nodes_per_aircraft" entry)
Scenario1_route_data ==
    [routes |->
        (1 :> << [nodes |-> <<1, 2, 3, 5>>, edges |-> << <<1, 2>>, <<2, 3>>, <<3, 5>> >>],
                 [nodes |-> <<1, 4, 3, 5>>, edges |-> << <<1, 4>>, <<4, 3>>, <<3, 5>> >>] >>)
        @@ (2 :> << [nodes |-> <<2, 3, 5>>, edges |-> << <<2, 3>>, <<3, 5>> >>] >>)
        @@ (3 :> << [nodes |-> <<3, 4, 5>>, edges |-> << <<3, 4>>, <<4, 5>> >>],
                    [nodes |-> <<3, 2, 5>>, edges |-> << <<3, 2>>, <<2, 5>> >>] >>),
     all_edges_per_aircraft |->
        (1 :> << <<1, 2>>, <<2, 3>>, <<3, 5>>, <<1, 4>>, <<4, 3>> >>)
        @@ (2 :> << <<2, 3>>, <<3, 5>> >>)
        @@ (3 :> << <<3, 4>>, <<4, 5>>, <<3, 2>>, <<2, 5>> >>)]

Scenario1 ==
    [name |-> "scenario_1",
     aircraft_data |-> Scenario1_aircraft_data,
     graph_data |-> Scenario1_graph_data]

\* The scenarios whose route_data is generated (as Dusseldorf.get_parameters
\* does) are drawn from a bounded family: nodes 1..NumNodes, an edge list of at
\* most MaxEdges directed edges in table order, a fleet of two aircraft.
Nodes == 1..NumNodes

\* a taxiway segment is listed from its lower to its higher node, as in
\* Dusseldorf's table, and may be listed back between neighbouring nodes, as
\* (4,3) and (3,2) are in Scenario1's
EdgePool == {e \in Nodes \X Nodes : e[1] < e[2] \/ e[1] = e[2] + 1}

EdgeRank(e) == e[1] * (NumNodes + 1) + e[2]

\* edge lists in table order, every directed edge listed once (a segment may
\* be listed in both directions)
EdgeLists ==
    {s \in UNION {[1..n -> EdgePool] : n \in 0..MaxEdges} :
        \A k \in 1..(Len(s) - 1) : EdgeRank(s[k]) < EdgeRank(s[k + 1])}

\* length table of a generated scenario, keyed by the listed edges as in both
\* scenario classes
GeneratedLength(e) == IF e[1] < e[2] THEN 2 * (e[2] - e[1]) ELSE 2 * (e[1] - e[2]) + 2

\* Both aircraft of a generated scenario are bound for the last node; an
\* aircraft is an arrival when it starts at node 1 (the runway exit) and a
\* departure otherwise.  PBT and ETD hold entries for an aircraft 3 that is not
\* in the fleet, as Dusseldorf's tables do.  Vi_j and T are numbers; the exit
\* edges are the listed edges that leave node 1.
GeneratedScenario(edges, o1, o2) ==
    LET origin == (1 :> o1) @@ (2 :> o2)
    IN [name |-> "scenario_2",
        aircraft_data |->
            [aircraft |-> <<1, 2>>,
             departures |-> SelectSeq(<<1, 2>>, LAMBDA a : origin[a] # 1),
             arrivals |-> SelectSeq(<<1, 2>>, LAMBDA a : origin[a] = 1),
             origin |-> origin,
             destination |-> (1 :> NumNodes) @@ (2 :> NumNodes),
             PBT |-> (1 :> 1) @@ (2 :> 2) @@ (3 :> 3),
             ETD |-> (1 :> 2) @@ (2 :> 3) @@ (3 :> 4),
             Vi_j |-> 1,
             T |-> 2],
        graph_data |->
            [nodes |-> Nodes,
             edges |-> edges,
             length |-> [e \in Range(edges) |-> GeneratedLength(e)],
             Smax |-> [e \in Range(edges) |-> 2],
             Smin |-> [e \in Range(edges) |-> 1],
             runway_exit_nodes |-> <<2>>,
             runway_entry_nodes |-> <<2>>,
             Sep |-> 1,
             exit_edges |-> SelectSeq(edges, LAMBDA e : e[1] = 1)]]

GeneratedScenarios ==
    {GeneratedScenario(edges, o1, o2) :
        edges \in EdgeLists, o1 \in Nodes, o2 \in Nodes}

\* get_scenario(name).get_parameters(): the route_data of a scenario
get_route_data(sc, default) ==
    IF sc.name = "scenario_1" THEN Scenario1_route_data
    ELSE generate_route_data(sc.aircraft_data, sc.graph_data, default)

\* the default list object of find_paths once get_parameters has returned
default_path_after(sc, default) ==
    IF sc.name = "scenario_1" THEN default
    ELSE default_path_at(sc.aircraft_data, default, Len(sc.aircraft_data.aircraft) + 1)

----------------------------------------------------------------------------
(* src/main.py: scenario_setup.                                            *)

\* a | b on dicts: the right operand wins on a shared key
dict_or(a, b) == b @@ a

\* the index set of Z handed to addVars
Z_keys(aircraft_data, graph_data) ==
    {<<"Z", i, j, u>> : i \in Range(aircraft_data.aircraft),
                        j \in Range(aircraft_data.aircraft),
                        u \in graph_data.nodes} \ 
    {<<"Z", i, i, u>> : i \in Range(aircraft_data.aircraft), u \in graph_data.nodes}

\* the index set of Gamma handed to addVars
Gamma_keys(aircraft_data, route_data) ==
    UNION {{<<"Gamma", i, r>> : r \in 1..Len(route_data.routes[i])} :
              i \in Range(aircraft_data.aircraft)}

\* the index set of rho handed to addVars
rho_keys(aircraft_data) ==
    {<<"rho", i, j>> : i \in Range(aircraft_data.aircraft),
                       j \in Range(aircraft_data.aircraft)} \ 
    {<<"rho", i, i>> : i \in Range(aircraft_data.aircraft)}

\* the index set of t handed to addVars
\* variant: t allocated only on the nodes that some edge touches
t_keys_on_edges(aircraft_data, graph_data) ==
    {<<"t", i, u>> : i \in Range(aircraft_data.aircraft),
                     u \in {e[1] : e \in Range(graph_data.edges)}
                           \cup {e[2] : e \in Range(graph_data.edges)}}

t_keys(aircraft_data, graph_data) ==
    {<<"t", i, u>> : i \in Range(aircraft_data.aircraft), u \in graph_data.nodes}

decision_variables(aircraft_data, graph_data, route_data) ==
    [Z |-> Z_keys(aircraft_data, graph_data),
     Gamma |-> Gamma_keys(aircraft_data, route_data),
     rho |-> rho_keys(aircraft_data),
     t |-> t_keys(aircraft_data, graph_data)]

\* the list constraints_setup runs
constraint_classes ==
    <<"Domain", "Sequencing", "Overtaking", "Release", "Speed", "Separation">>

scenario_setup ==
    /\ pc = "scenario_setup"
    /\ LET route_data == get_route_data(scenario, path_default)
       IN variables' =
            dict_or(dict_or(dict_or(dict_or(scenario.aircraft_data, scenario.graph_data),
                                    route_data),
                            decision_variables(scenario.aircraft_data,
                                               scenario.graph_data, route_data)),
                    [M |-> M])
    /\ pc' = "constraints_setup"
    /\ pending' = constraint_classes
    /\ path_default' = default_path_after(scenario, path_default)
    /\ UNCHANGED <<scenario, constraints, query, paths, solver, first_build>>

----------------------------------------------------------------------------
(* The rows handed to the solver (model.addConstr).                        *)

RECURSIVE term_sum(_, _)
\* merged coefficient of variable v in a list of terms <<coefficient, variable>>
term_sum(terms, v) ==
    IF terms = <<>> THEN 0
    ELSE (IF Head(terms)[2] = v THEN Head(terms)[1] ELSE 0) + term_sum(Tail(terms), v)

\* the row's coefficients: one entry per variable with a non-zero coefficient
row_coef(terms) ==
    LET used == {v \in {terms[k][2] : k \in 1..Len(terms)} : term_sum(terms, v) # 0}
    IN [v \in used |-> term_sum(terms, v)]

\* every decision variable scenario_setup allocated
allocated(vs) == vs.Z \cup vs.Gamma \cup vs.rho \cup vs.t

\* a step of add_constraints that raised (KeyError) and added nothing
KeyError == [raised |-> TRUE, rows |-> <<>>]

\* model.addConstr(lhs sense rhs, name): looking up a variable that was not
\* allocated raises KeyError, otherwise one row is added
addConstr(vs, name, terms, sense, rhs, scale) ==
    IF \A k \in 1..Len(terms) : terms[k][2] \in allocated(vs)
    THEN [raised |-> FALSE,
          rows |-> << [name |-> name, coef |-> row_coef(terms), sense |-> sense,
                       rhs |-> rhs, scale |-> scale] >>]
    ELSE KeyError

RECURSIVE run_steps(_)
\* the steps of one add_constraints in order: the rows added until a step
\* raises, and whether one did
run_steps(steps) ==
    IF steps = <<>> THEN [raised |-> FALSE, rows |-> <<>>]
    ELSE IF Head(steps).raised THEN [raised |-> TRUE, rows |-> Head(steps).rows]
    ELSE LET rest == run_steps(Tail(steps))
         IN [raised |-> rest.raised, rows |-> Head(steps).rows \o rest.rows]

\* for i in aircraft: for j in aircraft: if i != j
aircraft_pairs(vs) ==
    Flatten([a \in 1..Len(vs.aircraft) |->
        Flatten([b \in 1..Len(vs.aircraft) |->
            IF vs.aircraft[a] # vs.aircraft[b]
            THEN << <<vs.aircraft[a], vs.aircraft[b]>> >> ELSE <<>>])])

\* c * quicksum(Gamma[i, r] for r in range(len(routes[i])) if u in routes[i][r]["nodes"])
gamma_node_terms(vs, i, u, c) ==
    Flatten([r \in 1..Len(vs.routes[i]) |->
        IF InSeq(u, vs.routes[i][r].nodes) THEN << <<c, <<"Gamma", i, r>>>> >> ELSE <<>>])

\* c * quicksum(Gamma[i, r] for r in range(len(routes[i])) if e in routes[i][r]["edges"])
gamma_edge_terms(vs, i, e, c) ==
    Flatten([r \in 1..Len(vs.routes[i]) |->
        IF InSeq(e, vs.routes[i][r].edges) THEN << <<c, <<"Gamma", i, r>>>> >> ELSE <<>>])

\* [item for item in all_nodes_per_aircraft[i] if item in all_nodes_per_aircraft[j]]
shared_nodes(vs, i, j) ==
    SelectInSeq(vs.all_nodes_per_aircraft[i], Range(vs.all_nodes_per_aircraft[j]))

\* [item for item in all_edges_per_aircraft[i] if item in all_edges_per_aircraft[j]]
shared_edges(vs, i, j) ==
    SelectInSeq(vs.all_edges_per_aircraft[i], Range(vs.all_edges_per_aircraft[j]))

----------------------------------------------------------------------------
(* src/constraints.py: Domain.                                             *)

\* equation (6) summed over range(len(routes[i]) - 1): the last route is left out
route_selection_short(vs, i) ==
    addConstr(vs, <<"route_selection", i>>,
              [r \in 1..(Len(vs.routes[i]) - 1) |-> <<1, <<"Gamma", i, r>>>>], "==", 1, 1)

\* equation (6)
route_selection(vs, i) ==
    addConstr(vs, <<"route_selection", i>>,
              [r \in 1..Len(vs.routes[i]) |-> <<1, <<"Gamma", i, r>>>>], "==", 1, 1)

\* equation (7)
Z_logic_1(vs, i, j, u) ==
    addConstr(vs, <<"Z_logic_1", i, j, u>>,
              << <<1, <<"Z", i, j, u>>>> >> \o gamma_node_terms(vs, i, u, -1), "<=", 0, 1)

\* equation (8)
Z_logic_2(vs, i, j, u) ==
    addConstr(vs, <<"Z_logic_2", i, j, u>>,
              << <<1, <<"Z", i, j, u>>>> >> \o gamma_node_terms(vs, j, u, -1), "<=", 0, 1)

\* the body of the (i, j) iteration of the second loop of Domain
Domain_pair(vs, i, j) ==
    IF "all_nodes_per_aircraft" \notin DOMAIN vs THEN <<KeyError>>
    ELSE LET us == shared_nodes(vs, i, j)
         IN Flatten([k \in 1..Len(us) |->
                <<Z_logic_1(vs, i, j, us[k]), Z_logic_2(vs, i, j, us[k])>>])

Domain_add_constraints(vs) ==
    LET ps == aircraft_pairs(vs)
    IN run_steps([k \in 1..Len(vs.aircraft) |-> route_selection(vs, vs.aircraft[k])]
                 \o Flatten([p \in 1..Len(ps) |-> Domain_pair(vs, ps[p][1], ps[p][2])]))

----------------------------------------------------------------------------
(* src/constraints.py: Sequencing.                                         *)

\* equation (9)
sequencing_upper(vs, i, j, u) ==
    addConstr(vs, <<"sequencing_upper", i, j, u>>,
              << <<1, <<"Z", i, j, u>>>>, <<1, <<"Z", j, i, u>>>> >>
              \o gamma_node_terms(vs, i, u, 1) \o gamma_node_terms(vs, j, u, 1),
              "<=", 3, 1)

\* equation (10) without the factor 2
sequencing_lower_unscaled(vs, i, j, u) ==
    addConstr(vs, <<"sequencing_lower", i, j, u>>,
              << <<1, <<"Z", i, j, u>>>>, <<1, <<"Z", j, i, u>>>> >>
              \o gamma_node_terms(vs, i, u, -1) \o gamma_node_terms(vs, j, u, -1),
              ">=", -3, 1)

\* equation (10)
sequencing_lower(vs, i, j, u) ==
    addConstr(vs, <<"sequencing_lower", i, j, u>>,
              << <<1, <<"Z", i, j, u>>>>, <<1, <<"Z", j, i, u>>>> >>
              \o gamma_node_terms(vs, i, u, -2) \o gamma_node_terms(vs, j, u, -2),
              ">=", -3, 1)

Sequencing_pair(vs, i, j) ==
    IF "all_nodes_per_aircraft" \notin DOMAIN vs THEN <<KeyError>>
    ELSE LET us == shared_nodes(vs, i, j)
         IN Flatten([k \in 1..Len(us) |->
                <<sequencing_upper(vs, i, j, us[k]), sequencing_lower(vs, i, j, us[k])>>])

Sequencing_add_constraints(vs) ==
    LET ps == aircraft_pairs(vs)
    IN run_steps(Flatten([p \in 1..Len(ps) |-> Sequencing_pair(vs, ps[p][1], ps[p][2])]))

----------------------------------------------------------------------------
(* src/constraints.py: Overtaking (overtaking and head-on).                *)

\* equation (11) with the constant 3 of equation (9)
overtaking_upper_three(vs, i, j, e) ==
    addConstr(vs, <<"overtaking_upper", i, j, e[1], e[2]>>,
              << <<1, <<"Z", i, j, e[1]>>>>, <<-1, <<"Z", i, j, e[2]>>>> >>
              \o gamma_edge_terms(vs, i, e, 1) \o gamma_edge_terms(vs, j, e, 1),
              "<=", 3, 1)

\* equation (11)
overtaking_upper(vs, i, j, e) ==
    addConstr(vs, <<"overtaking_upper", i, j, e[1], e[2]>>,
              << <<1, <<"Z", i, j, e[1]>>>>, <<-1, <<"Z", i, j, e[2]>>>> >>
              \o gamma_edge_terms(vs, i, e, 1) \o gamma_edge_terms(vs, j, e, 1),
              "<=", 2, 1)

\* equation (12)
overtaking_lower(vs, i, j, e) ==
    addConstr(vs, <<"overtaking_lower", i, j, e[1], e[2]>>,
              << <<1, <<"Z", i, j, e[1]>>>>, <<-1, <<"Z", i, j, e[2]>>>> >>
              \o gamma_edge_terms(vs, i, e, -1) \o gamma_edge_terms(vs, j, e, -1),
              ">=", -2, 1)

\* equation (13)
headon_upper(vs, i, j, e) ==
    addConstr(vs, <<"headon_upper", i, j, e[1], e[2]>>,
              << <<1, <<"Z", i, j, e[1]>>>>, <<-1, <<"Z", j, i, e[2]>>>> >>
              \o gamma_edge_terms(vs, i, e, 1)
              \o gamma_edge_terms(vs, j, <<e[2], e[1]>>, 1),
              "<=", 2, 1)

\* equation (14)
headon_lower(vs, i, j, e) ==
    addConstr(vs, <<"headon_lower", i, j, e[1], e[2]>>,
              << <<1, <<"Z", i, j, e[1]>>>>, <<1, <<"Z", j, i, e[2]>>>> >>
              \o gamma_edge_terms(vs, i, e, -1)
              \o gamma_edge_terms(vs, j, <<e[2], e[1]>>, -1),
              ">=", -2, 1)

Overtaking_pair(vs, i, j) ==
    LET es == shared_edges(vs, i, j)
    IN Flatten([k \in 1..Len(es) |->
           <<overtaking_upper(vs, i, j, es[k]), overtaking_lower(vs, i, j, es[k])>>])

Headon_pair(vs, i, j) ==
    LET es == vs.all_edges_per_aircraft[i]
    IN Flatten([k \in 1..Len(es) |->
           IF InSeq(<<es[k][2], es[k][1]>>, vs.all_edges_per_aircraft[j])
           THEN <<headon_upper(vs, i, j, es[k]), headon_lower(vs, i, j, es[k])>>
           ELSE <<>>])

Overtaking_add_constraints(vs) ==
    LET ps == aircraft_pairs(vs)
    IN run_steps(Flatten([p \in 1..Len(ps) |-> Overtaking_pair(vs, ps[p][1], ps[p][2])])
                 \o Flatten([p \in 1..Len(ps) |-> Headon_pair(vs, ps[p][1], ps[p][2])]))

----------------------------------------------------------------------------
(* src/constraints.py: Release.                                            *)

\* equation (15)
release_arrival(vs, j) ==
    IF j \in DOMAIN vs.origin /\ j \in DOMAIN vs.ETD
    THEN addConstr(vs, <<"release_arrival", j>>,
                   << <<1, <<"t", j, vs.origin[j]>>>> >>, ">=", vs.ETD[j], 1)
    ELSE KeyError

\* equation (16) bounded by the touchdown table instead of the push-back table
release_departure_etd(vs, i) ==
    IF i \in DOMAIN vs.origin /\ i \in DOMAIN vs.ETD
    THEN addConstr(vs, <<"release_departure", i>>,
                   << <<1, <<"t", i, vs.origin[i]>>>> >>, ">=", vs.ETD[i], 1)
    ELSE KeyError

\* equation (16)
release_departure(vs, i) ==
    IF i \in DOMAIN vs.origin /\ i \in DOMAIN vs.PBT
    THEN addConstr(vs, <<"release_departure", i>>,
                   << <<1, <<"t", i, vs.origin[i]>>>> >>, ">=", vs.PBT[i], 1)
    ELSE KeyError

Release_add_constraints(vs) ==
    run_steps([k \in 1..Len(vs.arrivals) |-> release_arrival(vs, vs.arrivals[k])]
              \o [k \in 1..Len(vs.departures) |-> release_departure(vs, vs.departures[k])])

----------------------------------------------------------------------------
(* src/constraints.py: Speed.                                              *)

\* x, y = (min(u, v), max(u, v)): the key under which length, Smax and Smin
\* are looked up
lookup_key(e) == IF e[1] <= e[2] THEN e ELSE <<e[2], e[1]>>

\* equation (19), "speed_linear_max":
\*   t[i,v] - t[i,u] <= (length/Smax) * (M - M*sum + sum),
\* stored multiplied by Smax
speed_linear_max(vs, i, e) ==
    LET k == lookup_key(e)
    IN IF k \in DOMAIN vs.length /\ k \in DOMAIN vs.Smax
       THEN addConstr(vs, <<"speed_linear_max", i, e[1], e[2]>>,
                      << <<vs.Smax[k], <<"t", i, e[2]>>>>,
                         <<-vs.Smax[k], <<"t", i, e[1]>>>> >>
                      \o gamma_edge_terms(vs, i, e, vs.length[k] * (vs.M - 1)),
                      "<=", vs.length[k] * vs.M, vs.Smax[k])
       ELSE KeyError

\* equation (20), "speed_linear_min":
\*   t[i,v] - t[i,u] >= (length/Smin) * (M*sum - M + sum),
\* stored multiplied by Smin
speed_linear_min(vs, i, e) ==
    LET k == lookup_key(e)
    IN IF k \in DOMAIN vs.length /\ k \in DOMAIN vs.Smin
       THEN addConstr(vs, <<"speed_linear_min", i, e[1], e[2]>>,
                      << <<vs.Smin[k], <<"t", i, e[2]>>>>,
                         <<-vs.Smin[k], <<"t", i, e[1]>>>> >>
                      \o gamma_edge_terms(vs, i, e, -(vs.length[k] * (vs.M + 1))),
                      ">=", -(vs.length[k] * vs.M), vs.Smin[k])
       ELSE KeyError

Speed_aircraft(vs, i) ==
    LET es == vs.all_edges_per_aircraft[i]
    IN Flatten([k \in 1..Len(es) |->
           <<speed_linear_max(vs, i, es[k]), speed_linear_min(vs, i, es[k])>>])

Speed_add_constraints(vs) ==
    run_steps(Flatten([a \in 1..Len(vs.aircraft) |-> Speed_aircraft(vs, vs.aircraft[a])]))

----------------------------------------------------------------------------
(* src/constraints.py: Separation.                                         *)

\* equation (23) gated by the two route indicators only, without Z[i,j,u]
separation_without_Z(vs, i, j, e) ==
    LET k == lookup_key(e)
    IN IF k \in DOMAIN vs.length
       THEN addConstr(vs, <<"separation", i, j, e[1], e[2]>>,
                      << <<vs.length[k], <<"t", j, e[1]>>>>,
                         <<-vs.length[k], <<"t", i, e[1]>>>>,
                         <<-vs.Sep, <<"t", i, e[2]>>>>,
                         <<vs.Sep, <<"t", i, e[1]>>>> >>
                      \o gamma_edge_terms(vs, i, e, -(vs.M * vs.length[k]))
                      \o gamma_node_terms(vs, j, e[1], -(vs.M * vs.length[k])),
                      ">=", -(2 * vs.M * vs.length[k]), vs.length[k])
       ELSE KeyError

\* equation (23), "separation":
\*   t[j,u] - t[i,u] - (Sep/length) * (t[i,v] - t[i,u])
\*       >= -M * (3 - (Z[i,j,u] + sum_i(u,v) + sum_j(u))),
\* stored multiplied by length
separation(vs, i, j, e) ==
    LET k == lookup_key(e)
    IN IF k \in DOMAIN vs.length
       THEN addConstr(vs, <<"separation", i, j, e[1], e[2]>>,
                      << <<vs.length[k], <<"t", j, e[1]>>>>,
                         <<-vs.length[k], <<"t", i, e[1]>>>>,
                         <<-vs.Sep, <<"t", i, e[2]>>>>,
                         <<vs.Sep, <<"t", i, e[1]>>>>,
                         <<-(vs.M * vs.length[k]), <<"Z", i, j, e[1]>>>> >>
                      \o gamma_edge_terms(vs, i, e, -(vs.M * vs.length[k]))
                      \o gamma_node_terms(vs, j, e[1], -(vs.M * vs.length[k])),
                      ">=", -(3 * vs.M * vs.length[k]), vs.length[k])
       ELSE KeyError

\* variant of equation (24): gated by Z[i,j,v] in place of Z[j,i,v]
separation_reverse_Z_swapped(vs, i, j, e) ==
    LET k == lookup_key(e)
    IN IF k \in DOMAIN vs.length
       THEN addConstr(vs, <<"separation_reverse", i, j, e[1], e[2]>>,
                      << <<vs.length[k], <<"t", i, e[2]>>>>,
                         <<-vs.length[k], <<"t", j, e[2]>>>>,
                         <<-vs.Sep, <<"t", j, e[2]>>>>,
                         <<vs.Sep, <<"t", j, e[1]>>>>,
                         <<-(vs.M * vs.length[k]), <<"Z", i, j, e[2]>>>> >>
                      \o gamma_edge_terms(vs, j, e, -(vs.M * vs.length[k]))
                      \o gamma_node_terms(vs, i, e[2], -(vs.M * vs.length[k])),
                      ">=", -(3 * vs.M * vs.length[k]), vs.length[k])
       ELSE KeyError

\* equation (24), "separation_reverse", for the edge e = (w, v) of j:
\*   t[i,v] - t[j,v] - (Sep/length) * (t[j,v] - t[j,w])
\*       >= -M * (3 - (Z[j,i,v] + sum_j(w,v) + sum_i(v))),
\* stored multiplied by length
separation_reverse(vs, i, j, e) ==
    LET k == lookup_key(e)
    IN IF k \in DOMAIN vs.length
       THEN addConstr(vs, <<"separation_reverse", i, j, e[1], e[2]>>,
                      << <<vs.length[k], <<"t", i, e[2]>>>>,
                         <<-vs.length[k], <<"t", j, e[2]>>>>,
                         <<-vs.Sep, <<"t", j, e[2]>>>>,
                         <<vs.Sep, <<"t", j, e[1]>>>>,
                         <<-(vs.M * vs.length[k]), <<"Z", j, i, e[2]>>>> >>
                      \o gamma_edge_terms(vs, j, e, -(vs.M * vs.length[k]))
                      \o gamma_node_terms(vs, i, e[2], -(vs.M * vs.length[k])),
                      ">=", -(3 * vs.M * vs.length[k]), vs.length[k])
       ELSE KeyError

\* first loop, iteration (i, j): the edges (u, v) of i whose tail u is shared
Separation_pair(vs, i, j) ==
    LET es == vs.all_edges_per_aircraft[i]
    IN Flatten([k \in 1..Len(es) |->
           IF "all_nodes_per_aircraft" \notin DOMAIN vs THEN <<KeyError>>
           ELSE IF InSeq(es[k][1], shared_nodes(vs, i, j))
           THEN <<separation(vs, i, j, es[k])>>
           ELSE <<>>])

\* second loop, iteration (i, j): the edges (w, v) of j whose head v is shared
Separation_reverse_pair(vs, i, j) ==
    LET es == vs.all_edges_per_aircraft[j]
    IN Flatten([k \in 1..Len(es) |->
           IF "all_nodes_per_aircraft" \notin DOMAIN vs THEN <<KeyError>>
           ELSE IF InSeq(es[k][2], shared_nodes(vs, i, j))
           THEN <<separation_reverse(vs, i, j, es[k])>>
           ELSE <<>>])

Separation_add_constraints(vs) ==
    LET ps == aircraft_pairs(vs)
    IN run_steps(Flatten([p \in 1..Len(ps) |-> Separation_pair(vs, ps[p][1], ps[p][2])])
                 \o Flatten([p \in 1..Len(ps) |->
                        Separation_reverse_pair(vs, ps[p][1], ps[p][2])]))

----------------------------------------------------------------------------
(* src/main.py: constraints_setup, one action per constraint class.        *)

\* one iteration of the loop of constraints_setup: the class at the head of
\* the list adds its rows; an exception ends the program
run_class(name, result) ==
    /\ pc = "constraints_setup"
    /\ pending # <<>>
    /\ Head(pending) = name
    /\ constraints' = constraints \o result.rows
    /\ IF result.raised
       THEN pc' = "error" /\ pending' = pending
       ELSE /\ pending' = Tail(pending)
            /\ pc' = IF Tail(pending) = <<>> THEN "optimize_model" ELSE pc
    /\ UNCHANGED <<scenario, variables, query, paths, path_default, solver, first_build>>

Domain == run_class("Domain", Domain_add_constraints(variables))

Sequencing == run_class("Sequencing", Sequencing_add_constraints(variables))

Overtaking == run_class("Overtaking", Overtaking_add_constraints(variables))

Release == run_class("Release", Release_add_constraints(variables))

Speed == run_class("Speed", Speed_add_constraints(variables))

Separation == run_class("Separation", Separation_add_constraints(variables))

----------------------------------------------------------------------------
(* src/constraints.py: RunwayOccupancy and Capacity, the two classes that  *)
(* constraints_setup leaves out of its list.                               *)

\* constraint (28), "runway_linearization_i_j_lower":
\*   t[j,dest j] - t[i,dest i] - Vi_j >= -(1 - rho[i,j]) * M
runway_linearization(vs, i, j) ==
    IF {"destination", "Vi_j"} \subseteq DOMAIN vs
          /\ {i, j} \subseteq DOMAIN vs.destination
    THEN addConstr(vs, <<"runway_linearization", i, j, "lower">>,
                   << <<1, <<"t", j, vs.destination[j]>>>>,
                      <<-1, <<"t", i, vs.destination[i]>>>>,
                      <<-vs.M, <<"rho", i, j>>>> >>,
                   ">=", vs.Vi_j - vs.M, 1)
    ELSE KeyError

\* constraint (31), "runway_occupancy_upper_i_j_b":
\*   t[j,b] - t[i,dest i] - T >= -M * (1 - rho[i,j])
runway_occupancy_upper(vs, i, j, b) ==
    IF "T" \in DOMAIN vs /\ i \in DOMAIN vs.destination
    THEN addConstr(vs, <<"runway_occupancy_upper", i, j, b>>,
                   << <<1, <<"t", j, b>>>>,
                      <<-1, <<"t", i, vs.destination[i]>>>>,
                      <<-vs.M, <<"rho", i, j>>>> >>,
                   ">=", vs.T - vs.M, 1)
    ELSE KeyError

\* constraint (32), "runway_occupancy_lower_i_j_a":
\*   t[i,dest i] - t[j,a] >= -M * (1 - rho[j,i])
runway_occupancy_lower(vs, i, j, a) ==
    IF i \in DOMAIN vs.destination
    THEN addConstr(vs, <<"runway_occupancy_lower", i, j, a>>,
                   << <<1, <<"t", i, vs.destination[i]>>>>,
                      <<-1, <<"t", j, a>>>>,
                      <<-vs.M, <<"rho", j, i>>>> >>,
                   ">=", -vs.M, 1)
    ELSE KeyError

\* for i in departures: for j in arrivals: for b in <nodes>: if i != j:
\*     if b in all_nodes_per_aircraft[j]: step(i, j, b)
\* (<nodes> is runway_entry_nodes for the upper rows, runway_exit_nodes for
\* the lower rows)
runway_crossings(vs, nodes_key) ==
    Flatten([a \in 1..Len(vs.departures) |->
        Flatten([b \in 1..Len(vs.arrivals) |->
            LET i == vs.departures[a]
                j == vs.arrivals[b]
            IN IF nodes_key \notin DOMAIN vs THEN <<KeyError>>
               ELSE Flatten([n \in 1..Len(vs[nodes_key]) |->
                        IF i = j THEN <<>>
                        ELSE IF "all_nodes_per_aircraft" \notin DOMAIN vs
                        THEN <<KeyError>>
                        ELSE IF InSeq(vs[nodes_key][n], vs.all_nodes_per_aircraft[j])
                        THEN IF nodes_key = "runway_entry_nodes"
                             THEN <<runway_occupancy_upper(vs, i, j, vs[nodes_key][n])>>
                             ELSE <<runway_occupancy_lower(vs, i, j, vs[nodes_key][n])>>
                        ELSE <<>>])])])

RunwayOccupancy_add_constraints(vs) ==
    run_steps(
        Flatten([a \in 1..Len(vs.departures) |->
            Flatten([b \in 1..Len(vs.departures) |->
                IF vs.departures[a] # vs.departures[b]
                THEN <<runway_linearization(vs, vs.departures[a], vs.departures[b])>>
                ELSE <<>>])])
        \o runway_crossings(vs, "runway_entry_nodes")
        \o runway_crossings(vs, "runway_exit_nodes"))

\* equation (33), "capacity_i_j_l": t[i, l] <= T, l an edge of exit_edges.
\* t is keyed by (aircraft, node): a pair l that is one of the edges is no
\* node, so (i, l) equals no key of t and the lookup raises KeyError.
capacity(vs, i, j, l) ==
    IF ~InSeq(l, vs.edges) /\ <<"t", i, l>> \in vs.t /\ "T" \in DOMAIN vs
    THEN addConstr(vs, <<"capacity", i, j, l>>, << <<1, <<"t", i, l>>>> >>, "<=", vs.T, 1)
    ELSE KeyError

Capacity_add_constraints(vs) ==
    run_steps(
        Flatten([a \in 1..Len(vs.arrivals) |->
            Flatten([b \in 1..Len(vs.arrivals) |->
                IF vs.arrivals[a] = vs.arrivals[b] THEN <<>>
                ELSE IF "exit_edges" \notin DOMAIN vs THEN <<KeyError>>
                ELSE [n \in 1..Len(vs.exit_edges) |->
                         capacity(vs, vs.arrivals[a], vs.arrivals[b], vs.exit_edges[n])]])]))

\* constraint_class(self.model, self.variables).add_constraints() on a model
\* that holds no row yet, for a class outside the list of constraints_setup
call_class(name, result) ==
    /\ pc = "constraints_setup"
    /\ pending = constraint_classes
    /\ constraints = <<>>
    /\ constraints' = result.rows
    /\ query' = [class |-> name]
    /\ pc' = IF result.raised THEN "error" ELSE "called"
    /\ UNCHANGED <<scenario, variables, pending, paths, path_default, solver, first_build>>

RunwayOccupancy == call_class("RunwayOccupancy", RunwayOccupancy_add_constraints(variables))

Capacity == call_class("Capacity", Capacity_add_constraints(variables))

----------------------------------------------------------------------------
(* src/main.py: optimize_model and visualize_results.                      *)

\* Model(): no objective, never optimised, Status LOADED
NewModel ==
    [objective |-> <<>>, optimize_calls |-> 0, Status |-> "LOADED", computeIIS_calls |-> 0]

\* the Status attribute after model.optimize(): the solver's answer
Statuses == {"OPTIMAL", "INFEASIBLE", "UNBOUNDED", "INF_OR_UNBD"}

\* quicksum(t[i, destination[i]] for i in aircraft)
objective_terms(vs) ==
    [k \in 1..Len(vs.aircraft) |->
        <<1, <<"t", vs.aircraft[k], vs.destination[vs.aircraft[k]]>>>>]

\* setObjective(..., GRB.MINIMIZE) followed by optimize(); a t variable that
\* was not allocated raises KeyError before either
optimize_model ==
    /\ pc = "optimize_model"
    /\ LET terms == objective_terms(variables)
       IN IF \A k \in 1..Len(terms) : terms[k][2] \in allocated(variables)
          THEN /\ \E st \in Statuses :
                      solver' = [solver EXCEPT
                                    !.objective = [sense |-> "MINIMIZE",
                                                   coef |-> row_coef(terms)],
                                    !.optimize_calls = @ + 1,
                                    !.Status = st]
               /\ pc' = "visualize_results"
          ELSE pc' = "error" /\ UNCHANGED solver
    /\ UNCHANGED <<scenario, variables, constraints, pending, query, paths,
                   path_default, first_build>>

\* the branch of visualize_results that calls model.computeIIS()
\* variant: the IIS requested for every status that is not Optimal
requests_IIS_unless_optimal(Status) == Status # "OPTIMAL"

requests_IIS(Status) == Status = "INFEASIBLE"

visualize_results ==
    /\ pc = "visualize_results"
    /\ solver' = [solver EXCEPT
                     !.computeIIS_calls = IF requests_IIS(solver.Status) THEN @ + 1 ELSE @]
    /\ pc' = "done"
    /\ UNCHANGED <<scenario, variables, constraints, pending, query, paths,
                   path_default, first_build>>

----------------------------------------------------------------------------
(* The main flow.                                                          *)

Scenarios == {Scenario1} \cup GeneratedScenarios

Init ==
    /\ scenario \in Scenarios
    /\ variables = <<>>
    /\ constraints = <<>>
    /\ pending = <<>>
    /\ pc = "scenario_setup"
    /\ query = <<>>
    /\ paths = <<>>
    /\ path_default = <<>>
    /\ solver = NewModel
    /\ first_build = <<>>

Next ==
    \/ scenario_setup
    \/ Domain
    \/ Sequencing
    \/ Overtaking
    \/ Release
    \/ Speed
    \/ Separation
    \/ optimize_model
    \/ visualize_results

Spec == Init /\ [][Next]_vars

----------------------------------------------------------------------------
(* A second build from the same inputs: a fresh TaxiSchedulingModel is set *)
(* up in the same interpreter once the first build has ended (its rows are *)
(* all emitted, or a class raised).                                        *)

rebuild ==
    /\ pc \in {"optimize_model", "error"}
    /\ first_build = <<>>
    /\ first_build' = [variables |-> variables, constraints |-> Range(constraints)]
    /\ variables' = <<>>
    /\ constraints' = <<>>
    /\ pending' = <<>>
    /\ solver' = NewModel
    /\ pc' = "scenario_setup"
    /\ UNCHANGED <<scenario, query, paths, path_default>>

NextRebuild == Next \/ rebuild

SpecRebuild == Init /\ [][NextRebuild]_vars

----------------------------------------------------------------------------
(* The classes outside the list of constraints_setup, each run on its own  *)
(* on the registry of a scenario that carries their tables (Vi_j, T, the   *)
(* runway nodes and the exit edges, as Dusseldorf does).                   *)

InitUncomposed == Init /\ scenario \in GeneratedScenarios

NextUncomposed ==
    \/ scenario_setup
    \/ RunwayOccupancy
    \/ Capacity

SpecUncomposed == InitUncomposed /\ [][NextUncomposed]_vars

----------------------------------------------------------------------------
(* Direct calls of find_paths: the graph, the start and the end node are   *)
(* drawn from the bounded inputs, the call returns its list of paths.      *)

GraphInputs ==
    {Scenario1_graph_data}
    \cup {[nodes |-> Nodes, edges |-> edges] : edges \in EdgeLists}

InitPaths ==
    /\ query \in UNION {[graph_data : {g}, start : g.nodes, end : g.nodes] :
                           g \in GraphInputs}
    /\ paths = <<>>
    /\ pc = "find_paths"
    /\ scenario = <<>>
    /\ variables = <<>>
    /\ constraints = <<>>
    /\ pending = <<>>
    /\ path_default = <<>>
    /\ solver = NewModel
    /\ first_build = <<>>

call_find_paths ==
    /\ pc = "find_paths"
    /\ paths' = find_paths(query.graph_data, query.start, query.end, path_default)
    /\ path_default' = path_object_after(path_default, query.start)
    /\ pc' = "returned"
    /\ UNCHANGED <<scenario, variables, constraints, pending, query, solver, first_build>>

NextPaths == call_find_paths

SpecPaths == InitPaths /\ [][NextPaths]_vars

\* Direct calls on graphs whose edge list may touch a node that "nodes"
\* does not hold, from any start to any end.
NodeSets == {Nodes} \cup {Nodes \ {u} : u \in Nodes}

OpenGraphInputs ==
    {Scenario1_graph_data}
    \cup {[nodes |-> nodes, edges |-> edges] : nodes \in NodeSets, edges \in EdgeLists}

InitOpenPaths ==
    /\ query \in UNION {[graph_data : {g}, start : Nodes \cup g.nodes, end : Nodes \cup g.nodes] :
                           g \in OpenGraphInputs}
    /\ paths = <<>>
    /\ pc = "find_paths"
    /\ scenario = <<>>
    /\ variables = <<>>
    /\ constraints = <<>>
    /\ pending = <<>>
    /\ path_default = <<>>
    /\ solver = NewModel
    /\ first_build = <<>>

SpecOpenPaths == InitOpenPaths /\ [][NextPaths]_vars

----------------------------------------------------------------------------
(* Reading the emitted model: rows, assignments, satisfaction.             *)

\* the constraint class has run to its end (the rows are read while
\* constraints_setup runs and when it ends; optimize_model and
\* visualize_results add no row)
Done(class) ==
    /\ pc \in {"constraints_setup", "optimize_model", "error"}
    /\ ~InSeq(class, pending)

\* the constraint class has run, to its end or to an exception
Ran(class) ==
    /\ pc \in {"constraints_setup", "optimize_model", "error"}
    /\ (pc = "error" \/ ~InSeq(class, pending))

\* the emitted rows with the given name
RowsNamed(name) == {k \in 1..Len(constraints) : constraints[k].name = name}

\* the emitted rows of the given families that mention only variables of V
FocusRows(families, V) ==
    {constraints[k] : k \in {n \in 1..Len(constraints) :
                                /\ constraints[n].name[1] \in families
                                /\ DOMAIN constraints[n].coef \subseteq V}}

RECURSIVE lin_value(_, _, _)
\* the value of the row's left-hand side restricted to the variables S
lin_value(coef, val, S) ==
    IF S = {} THEN 0
    ELSE LET v == CHOOSE x \in S : TRUE
         IN coef[v] * val[v] + lin_value(coef, val, S \ {v})

\* the assignment val satisfies the row
row_holds(row, val) ==
    LET lhs == lin_value(row.coef, val, DOMAIN row.coef)
    IN CASE row.sense = "<=" -> lhs <= row.rhs
         [] row.sense = ">=" -> lhs >= row.rhs
         [] row.sense = "==" -> lhs = row.rhs

Sat(rows, val) == \A row \in rows : row_holds(row, val)

Fleet == Range(variables.aircraft)

GammaVars(i) == {<<"Gamma", i, r>> : r \in 1..Len(variables.routes[i])}

\* the 0/1 values of the route variables of aircraft i that satisfy the
\* emitted route-selection rows
GammaVals(i) ==
    LET rows == FocusRows({"route_selection"}, GammaVars(i))
    IN {g \in [GammaVars(i) -> {0, 1}] : Sat(rows, g)}

\* under g aircraft i selects a route through node u
SelectsNode(g, i, u) ==
    \E r \in 1..Len(variables.routes[i]) :
        g[<<"Gamma", i, r>>] = 1 /\ InSeq(u, variables.routes[i][r].nodes)

\* under g aircraft i selects a route that contains the directed edge e
SelectsEdge(g, i, e) ==
    \E r \in 1..Len(variables.routes[i]) :
        g[<<"Gamma", i, r>>] = 1 /\ InSeq(e, variables.routes[i][r].edges)

Pairs == {p \in Fleet \X Fleet : p[1] # p[2]}

DomainFamilies == {"route_selection", "Z_logic_1", "Z_logic_2"}

SequencingFamilies == {"sequencing_upper", "sequencing_lower"}

----------------------------------------------------------------------------
(* Claims.                                                                 *)

\* C1: once Domain has run, every aircraft of the fleet has exactly one
\* route-selection row; the row mentions exactly the Gamma variables of the
\* aircraft's candidate routes and a 0/1 assignment satisfies it exactly when
\* one of them is 1.
C1_RouteSelection ==
    Ran("Domain") =>
        \A i \in Fleet :
            /\ Cardinality(RowsNamed(<<"route_selection", i>>)) = 1
            /\ \A k \in RowsNamed(<<"route_selection", i>>) :
                   /\ DOMAIN constraints[k].coef = GammaVars(i)
                   /\ \A g \in [GammaVars(i) -> {0, 1}] :
                          row_holds(constraints[k], g)
                              <=> Cardinality({v \in GammaVars(i) : g[v] = 1}) = 1

\* C1 witness: Domain has run on a fleet with a single-route aircraft and a
\* many-route aircraft, and each has a satisfying selection.
C1_Witness ==
    /\ Ran("Domain")
    /\ \E i, j \in Fleet :
           /\ Len(variables.routes[i]) = 1
           /\ Len(variables.routes[j]) >= 2
           /\ GammaVals(i) # {}
           /\ GammaVals(j) # {}

RowNamed(name) == constraints[CHOOSE k \in RowsNamed(name) : TRUE]

\* C3: once Domain and Overtaking have run, every directed edge (u,v) of both
\* footprints has, for each ordered pair i, j, its two overtaking rows; under a
\* route selection in which both aircraft take (u,v) the rows hold only if
\* Z[i,j,u] = Z[i,j,v], and under one in which at most one of them takes (u,v)
\* they hold for every value of Z[i,j,u] and Z[i,j,v].
C3_Overtaking ==
    (Done("Domain") /\ Done("Overtaking")) =>
        \A p \in Pairs :
            \A e \in Range(shared_edges(variables, p[1], p[2])) :
                LET zu == <<"Z", p[1], p[2], e[1]>>
                    zv == <<"Z", p[1], p[2], e[2]>>
                    upper == <<"overtaking_upper", p[1], p[2], e[1], e[2]>>
                    lower == <<"overtaking_lower", p[1], p[2], e[1], e[2]>>
                    rows == {RowNamed(upper), RowNamed(lower)}
                    Gi == GammaVals(p[1])
                    Gj == GammaVals(p[2])
                IN /\ Cardinality(RowsNamed(upper)) = 1
                   /\ Cardinality(RowsNamed(lower)) = 1
                   /\ \A gi \in Gi : \A gj \in Gj :
                          \A z \in [{zu, zv} -> {0, 1}] :
                              LET holds == Sat(rows, gi @@ gj @@ z)
                              IN IF SelectsEdge(gi, p[1], e) /\ SelectsEdge(gj, p[2], e)
                                 THEN holds => z[zu] = z[zv]
                                 ELSE holds

\* C3 witness: a shared directed edge that both aircraft take under one
\* satisfying selection and only one of them under another, where the rows
\* leave Z[i,j,u] = 1, Z[i,j,v] = 0 possible.
C3_Witness ==
    /\ Done("Domain") /\ Done("Overtaking")
    /\ \E p \in Pairs :
           \E e \in Range(shared_edges(variables, p[1], p[2])) :
               LET zu == <<"Z", p[1], p[2], e[1]>>
                   zv == <<"Z", p[1], p[2], e[2]>>
                   rows == {RowNamed(<<"overtaking_upper", p[1], p[2], e[1], e[2]>>),
                            RowNamed(<<"overtaking_lower", p[1], p[2], e[1], e[2]>>)}
               IN /\ \E gi \in GammaVals(p[1]) : \E gj \in GammaVals(p[2]) :
                         /\ SelectsEdge(gi, p[1], e) /\ SelectsEdge(gj, p[2], e)
                         /\ Sat(rows, gi @@ gj @@ (zu :> 1) @@ (zv :> 1))
                         /\ ~Sat(rows, gi @@ gj @@ (zu :> 1) @@ (zv :> 0))
                  /\ \E gi \in GammaVals(p[1]) : \E gj \in GammaVals(p[2]) :
                         /\ ~SelectsEdge(gi, p[1], e)
                         /\ Sat(rows, gi @@ gj @@ (zu :> 1) @@ (zv :> 0))

HeadonFamilies == {"headon_upper", "headon_lower"}

\* C4: once Domain, Sequencing and Overtaking have run, whenever (u,v) is a
\* footprint edge of i and (v,u) one of j, every 0/1 assignment of the
\* variables of i and j at u and v that satisfies the Domain, Sequencing and
\* head-on rows on them, and in which i takes (u,v) and j takes (v,u), has
\* Z[i,j,u] = Z[i,j,v].
C4_HeadOn ==
    (Done("Domain") /\ Done("Sequencing") /\ Done("Overtaking")) =>
        \A p \in Pairs :
            \A e \in Range(variables.all_edges_per_aircraft[p[1]]) :
                InSeq(<<e[2], e[1]>>, variables.all_edges_per_aircraft[p[2]]) =>
                    LET Zs == {<<"Z", p[1], p[2], e[1]>>, <<"Z", p[2], p[1], e[1]>>,
                               <<"Z", p[1], p[2], e[2]>>, <<"Z", p[2], p[1], e[2]>>}
                        V == GammaVars(p[1]) \cup GammaVars(p[2]) \cup Zs
                        rows == FocusRows(DomainFamilies \cup SequencingFamilies
                                          \cup HeadonFamilies, V)
                    IN \A gi \in GammaVals(p[1]) : \A gj \in GammaVals(p[2]) :
                           (SelectsEdge(gi, p[1], e)
                            /\ SelectsEdge(gj, p[2], <<e[2], e[1]>>)) =>
                               \A z \in [Zs -> {0, 1}] :
                                   Sat(rows, gi @@ gj @@ z) =>
                                       z[<<"Z", p[1], p[2], e[1]>>]
                                           = z[<<"Z", p[1], p[2], e[2]>>]

\* candidate times of the schedule
Times == 0..MaxTime

\* C5: once Domain and Speed have run, for every aircraft i and footprint edge
\* (u,v) with length L > 0 and Smin < Smax under the key (min(u,v), max(u,v)):
\* under a selection in which i takes (u,v) the two speed rows admit exactly
\* the transit times d = t[i,v] - t[i,u] with L/Smax <= d <= L/Smin, and under
\* one in which it does not they admit every transit time.
C5_SpeedInterval ==
    (Done("Domain") /\ Done("Speed")) =>
        \A i \in Fleet :
            \A e \in Range(variables.all_edges_per_aircraft[i]) :
                LET k == lookup_key(e)
                    L == variables.length[k]
                    tu == <<"t", i, e[1]>>
                    tv == <<"t", i, e[2]>>
                    rows == {RowNamed(<<"speed_linear_max", i, e[1], e[2]>>),
                             RowNamed(<<"speed_linear_min", i, e[1], e[2]>>)}
                IN (L > 0 /\ variables.Smin[k] < variables.Smax[k]) =>
                       \A g \in GammaVals(i) : \A a \in Times : \A b \in Times :
                           LET holds == Sat(rows, g @@ (tu :> a) @@ (tv :> b))
                           IN IF SelectsEdge(g, i, e)
                              THEN holds <=> (/\ L <= (b - a) * variables.Smax[k]
                                              /\ (b - a) * variables.Smin[k] <= L)
                              ELSE holds

\* the 0/1 variables of a row
BinaryVars(row) == {v \in DOMAIN row.coef : v[1] \in {"Z", "Gamma", "rho"}}

\* the right-hand side the row leaves for its time variables once its 0/1
\* variables are fixed by val, times the row's scale
gated_rhs(row, val) == row.rhs - lin_value(row.coef, val, BinaryVars(row))

\* the rows of equation (23): i, j distinct, (u,v) a footprint edge of i, u in
\* both footprints
SeparationIndex ==
    {<<p[1], p[2], e[1], e[2]>> :
        p \in Pairs, e \in UNION {Range(variables.all_edges_per_aircraft[i]) : i \in Fleet}}
    \cap {x \in Fleet \X Fleet \X variables.nodes \X variables.nodes :
            /\ InSeq(<<x[3], x[4]>>, variables.all_edges_per_aircraft[x[1]])
            /\ InSeq(x[3], shared_nodes(variables, x[1], x[2]))}

\* the rows of equation (24): i, j distinct, (w,v) a footprint edge of j, v in
\* both footprints
SeparationReverseIndex ==
    {<<p[1], p[2], e[1], e[2]>> :
        p \in Pairs, e \in UNION {Range(variables.all_edges_per_aircraft[i]) : i \in Fleet}}
    \cap {x \in Fleet \X Fleet \X variables.nodes \X variables.nodes :
            /\ InSeq(<<x[3], x[4]>>, variables.all_edges_per_aircraft[x[2]])
            /\ InSeq(x[4], shared_nodes(variables, x[1], x[2]))}

\* equation (23) at x = (i, j, u, v): with Z[i,j,u] = 1, i on (u,v) and j
\* through u the row is t[j,u] - t[i,u] >= (Sep/length) * (t[i,v] - t[i,u]);
\* with any of the three indicators 0 its right-hand side is at most -M
SeparationGated(x) ==
    LET i == x[1]
        j == x[2]
        e == <<x[3], x[4]>>
        L == variables.length[lookup_key(e)]
        row == RowNamed(<<"separation", i, j, e[1], e[2]>>)
        zv == <<"Z", i, j, e[1]>>
        Gi == GammaVals(i)
        Gj == GammaVals(j)
    IN \A gi \in Gi : \A gj \in Gj : \A z \in {0, 1} :
           IF z = 1 /\ SelectsEdge(gi, i, e) /\ SelectsNode(gj, j, e[1])
           THEN \A a \in Times : \A b \in Times : \A c \in Times :
                    row_holds(row, gi @@ gj @@ (zv :> z) @@ (<<"t", i, e[1]>> :> a)
                                   @@ (<<"t", i, e[2]>> :> b) @@ (<<"t", j, e[1]>> :> c))
                        <=> L * (c - a) >= variables.Sep * (b - a)
           ELSE gated_rhs(row, gi @@ gj @@ (zv :> z)) <= -(variables.M * row.scale)

\* equation (24) at x = (i, j, w, v): with Z[j,i,v] = 1, j on (w,v) and i
\* through v the row is t[i,v] - t[j,v] >= (Sep/length) * (t[j,v] - t[j,w]);
\* with any of the three indicators 0 its right-hand side is at most -M
SeparationReverseGated(x) ==
    LET i == x[1]
        j == x[2]
        e == <<x[3], x[4]>>
        L == variables.length[lookup_key(e)]
        row == RowNamed(<<"separation_reverse", i, j, e[1], e[2]>>)
        zv == <<"Z", j, i, e[2]>>
        Gi == GammaVals(i)
        Gj == GammaVals(j)
    IN \A gi \in Gi : \A gj \in Gj : \A z \in {0, 1} :
           IF z = 1 /\ SelectsEdge(gj, j, e) /\ SelectsNode(gi, i, e[2])
           THEN \A a \in Times : \A b \in Times : \A c \in Times :
                    row_holds(row, gi @@ gj @@ (zv :> z) @@ (<<"t", j, e[1]>> :> a)
                                   @@ (<<"t", j, e[2]>> :> b) @@ (<<"t", i, e[2]>> :> c))
                        <=> L * (c - b) >= variables.Sep * (b - a)
           ELSE gated_rhs(row, gi @@ gj @@ (zv :> z)) <= -(variables.M * row.scale)

\* C6: once Domain and Separation have run, the separation rows are exactly
\* those of equations (23) and (24) over their index sets, one row each, and
\* each row is binding exactly when its three gating indicators are 1 and has
\* a right-hand side of at most -M otherwise.
C6_Separation ==
    (Done("Domain") /\ Done("Separation")) =>
        /\ \A x \in SeparationIndex :
               /\ Cardinality(RowsNamed(<<"separation">> \o x)) = 1
               /\ SeparationGated(x)
        /\ \A x \in SeparationReverseIndex :
               /\ Cardinality(RowsNamed(<<"separation_reverse">> \o x)) = 1
               /\ SeparationReverseGated(x)
        /\ \A k \in 1..Len(constraints) :
               /\ constraints[k].name[1] = "separation"
                      => Tail(constraints[k].name) \in SeparationIndex
               /\ constraints[k].name[1] = "separation_reverse"
                      => Tail(constraints[k].name) \in SeparationReverseIndex

\* C6 witness: a row of equation (23) and a row of equation (24), each with a
\* satisfying selection in which its three indicators can all be 1 and one in
\* which a route indicator is 0.
C6_Witness ==
    /\ Done("Domain") /\ Done("Separation")
    /\ \E x \in SeparationIndex :
           \E gi \in GammaVals(x[1]) : \E gj \in GammaVals(x[2]) :
               \E hi \in GammaVals(x[1]) :
                   /\ SelectsEdge(gi, x[1], <<x[3], x[4]>>)
                   /\ SelectsNode(gj, x[2], x[3])
                   /\ ~SelectsEdge(hi, x[1], <<x[3], x[4]>>)
    /\ \E x \in SeparationReverseIndex :
           \E gi \in GammaVals(x[1]) : \E gj \in GammaVals(x[2]) :
               \E hj \in GammaVals(x[2]) :
                   /\ SelectsEdge(gj, x[2], <<x[3], x[4]>>)
                   /\ SelectsNode(gi, x[1], x[4])
                   /\ ~SelectsEdge(hj, x[2], <<x[3], x[4]>>)

ReleaseFamilies == {"release_arrival", "release_departure"}

\* departures and arrivals partition the fleet
RolesPartitionFleet ==
    /\ Range(variables.departures) \cup Range(variables.arrivals) = Fleet
    /\ Range(variables.departures) \cap Range(variables.arrivals) = {}

\* the release rows emitted for aircraft i
ReleaseRows(i) ==
    {k \in 1..Len(constraints) :
        constraints[k].name[1] \in ReleaseFamilies /\ constraints[k].name[2] = i}

\* C7: once Release has run on a fleet partitioned into departures and
\* arrivals, every aircraft i of the fleet has exactly one release row,
\* t[i, origin[i]] >= PBT[i] for a departure and >= ETD[i] for an arrival, and
\* no release row is emitted for an aircraft outside the fleet.
C7_Release ==
    (Done("Release") /\ RolesPartitionFleet) =>
        /\ \A i \in Fleet :
               /\ Cardinality(ReleaseRows(i)) = 1
               /\ \A k \in ReleaseRows(i) :
                      /\ constraints[k].coef = (<<"t", i, variables.origin[i]>> :> 1)
                      /\ constraints[k].sense = ">="
                      /\ constraints[k].rhs =
                             IF InSeq(i, variables.departures)
                             THEN variables.PBT[i] ELSE variables.ETD[i]
        /\ \A k \in 1..Len(constraints) :
               constraints[k].name[1] \in ReleaseFamilies
                   => constraints[k].name[2] \in Fleet

\* C7 witness: Release has run on a fleet with a departure and an arrival
\* while PBT and ETD hold entries for an aircraft outside the fleet.
C7_Witness ==
    /\ Done("Release") /\ RolesPartitionFleet
    /\ variables.departures # <<>>
    /\ variables.arrivals # <<>>
    /\ (DOMAIN variables.PBT) \ Fleet # {}
    /\ (DOMAIN variables.ETD) \ Fleet # {}
    /\ \A i \in Fleet : variables.PBT[i] # variables.ETD[i]

\* C8: once Domain and Sequencing have run, for distinct i, j and every graph
\* node u that is not in both footprints, Z[i,j,u] is not allocated or every
\* 0/1 assignment of the variables of i and j at u that satisfies the Domain
\* and Sequencing rows on them has Z[i,j,u] + Z[j,i,u] = 0.
C8_ForcedInactive ==
    (Done("Domain") /\ Done("Sequencing")) =>
        \A p \in Pairs :
            \A u \in variables.nodes \ Range(shared_nodes(variables, p[1], p[2])) :
                LET zij == <<"Z", p[1], p[2], u>>
                    zji == <<"Z", p[2], p[1], u>>
                    V == GammaVars(p[1]) \cup GammaVars(p[2]) \cup {zij, zji}
                    rows == FocusRows(DomainFamilies \cup SequencingFamilies, V)
                IN \/ zij \notin variables.Z /\ zji \notin variables.Z
                   \/ \A gi \in GammaVals(p[1]) : \A gj \in GammaVals(p[2]) :
                          \A z \in [{zij, zji} -> {0, 1}] :
                              Sat(rows, gi @@ gj @@ z) => z[zij] + z[zji] = 0

\* C9: after scenario_setup, Z is allocated exactly for distinct i, j and the
\* nodes of both footprints, t exactly for the nodes of the aircraft's
\* footprint, Gamma exactly over (aircraft, route index) and rho over all
\* ordered pairs of distinct aircraft.
C9_SparseAllocation ==
    (pc # "scenario_setup" /\ "all_nodes_per_aircraft" \in DOMAIN variables) =>
        /\ variables.Z =
               UNION {{<<"Z", p[1], p[2], u>> :
                          u \in Range(shared_nodes(variables, p[1], p[2]))} : p \in Pairs}
        /\ variables.t =
               UNION {{<<"t", i, u>> : u \in Range(variables.all_nodes_per_aircraft[i])} :
                         i \in Fleet}
        /\ variables.Gamma = UNION {GammaVars(i) : i \in Fleet}
        /\ variables.rho = {<<"rho", p[1], p[2]>> : p \in Pairs}

\* the simple paths of the graph from start to end: no node twice, consecutive
\* nodes joined by a listed edge in either direction
SimplePaths(graph_data, start, end) ==
    {path \in UNION {[1..n -> graph_data.nodes] : n \in 1..Cardinality(graph_data.nodes)} :
        /\ path[1] = start
        /\ path[Len(path)] = end
        /\ \A a, b \in 1..Len(path) : a # b => path[a] # path[b]
        /\ \A a \in 1..(Len(path) - 1) :
               \/ InSeq(<<path[a], path[a + 1]>>, graph_data.edges)
               \/ InSeq(<<path[a + 1], path[a]>>, graph_data.edges)}

\* C10: find_paths returns every simple path from start to end exactly once
\* and nothing else, and on the reference graph from node 1 to node 5 exactly
\* the routes [1,2,3,5] and [1,4,3,5].
C10_PathsCompleteNoDuplicates ==
    pc = "returned" =>
        /\ Range(paths) = SimplePaths(query.graph_data, query.start, query.end)
        /\ \A a, b \in 1..Len(paths) : a # b => paths[a] # paths[b]
        /\ (query.graph_data = Scenario1_graph_data /\ query.start = 1 /\ query.end = 5)
               => paths = << <<1, 2, 3, 5>>, <<1, 4, 3, 5>> >>

\* the position of the first appearance of x in s
FirstIndex(x, s) == CHOOSE k \in 1..Len(s) : s[k] = x /\ \A n \in 1..(k - 1) : s[n] # x

\* list holds every element of source once, in order of first appearance
ListsOnceInOrder(list, source) ==
    /\ Range(list) = Range(source)
    /\ \A k, n \in 1..Len(list) :
           k < n => FirstIndex(list[k], source) < FirstIndex(list[n], source)

\* the route catalog has been generated and merged into the registry
Generated == scenario.name = "scenario_2" /\ pc \notin {"scenario_setup", "find_paths", "returned"}

\* C11: once generate_route_data has produced the route data, for every
\* aircraft the footprint edges list the edges of all its routes once in order
\* of first appearance, the footprint nodes list the nodes of all its routes
\* once in order of first appearance, and an aircraft whose origin is its
\* destination has the single route [origin] with origin among its footprint
\* nodes.
C11_Footprints ==
    Generated =>
        \A i \in Fleet :
            LET routes == variables.routes[i]
                route_edges == Flatten([r \in 1..Len(routes) |-> routes[r].edges])
                route_nodes == Flatten([r \in 1..Len(routes) |-> routes[r].nodes])
            IN /\ ListsOnceInOrder(variables.all_edges_per_aircraft[i], route_edges)
               /\ ListsOnceInOrder(variables.all_nodes_per_aircraft[i], route_nodes)
               /\ variables.origin[i] = variables.destination[i] =>
                      /\ routes = << [nodes |-> <<variables.origin[i]>>, edges |-> <<>>] >>
                      /\ InSeq(variables.origin[i], variables.all_nodes_per_aircraft[i])

\* some aircraft of the fleet has no candidate route
SomeRouteSetEmpty == \E i \in Fleet : variables.routes[i] = <<>>

\* C12: when the generated route set of some aircraft is empty, the build has
\* ended in an error raised by the construction of the scenario data and the
\* registry, and no constraint has been emitted.
C12_NoRouteIsConfigurationError ==
    (Generated /\ SomeRouteSetEmpty) => (pc = "error" /\ constraints = <<>>)

\* some footprint edge has no length, Smax or Smin entry under its lookup key
SomeEdgeParameterMissing ==
    \E i \in Fleet : \E e \in Range(variables.all_edges_per_aircraft[i]) :
        \/ lookup_key(e) \notin DOMAIN variables.length
        \/ lookup_key(e) \notin DOMAIN variables.Smax
        \/ lookup_key(e) \notin DOMAIN variables.Smin

\* C13: when a footprint edge lacks a required parameter, no constraint is
\* ever in the model: the build stops before the first row is added.
C13_MissingParameterBeforeConstraints ==
    (Generated /\ SomeEdgeParameterMissing) => constraints = <<>>

\* C14: on the reference scenario the run raises no error, the solver is
\* called with the objective sum of t[i,5] over the three aircraft, and the
\* status it ends with is Optimal.
C14_ReferenceEndToEnd ==
    scenario.name = "scenario_1" =>
        /\ pc # "error"
        /\ pc = "done" =>
               /\ solver.Status = "OPTIMAL"
               /\ solver.objective.coef =
                      [v \in {<<"t", i, 5>> : i \in {1, 2, 3}} |-> 1]

----------------------------------------------------------------------------
\* C15: the model assembled by constraints_setup holds, for every ordered
\* pair of distinct departures i, j, the runway row gated by rho[i,j]
\*   t[j,dest j] - t[i,dest i] - M*rho[i,j] >= Vi_j - M.
Assembled == pc \in {"optimize_model", "visualize_results", "done"}

C15_RunwayOrderAssembled ==
    (Generated /\ Assembled) =>
        \A a, b \in 1..Len(variables.departures) :
            LET i == variables.departures[a]
                j == variables.departures[b]
            IN i # j =>
                 \E k \in 1..Len(constraints) :
                     /\ constraints[k].name[1] = "runway_linearization"
                     /\ constraints[k].name[2] = i
                     /\ constraints[k].name[3] = j
                     /\ constraints[k].coef =
                            row_coef(<< <<1, <<"t", j, variables.destination[j]>>>>,
                                        <<-1, <<"t", i, variables.destination[i]>>>>,
                                        <<-variables.M, <<"rho", i, j>>>> >>)
                     /\ constraints[k].sense = ">="
                     /\ constraints[k].rhs = variables.Vi_j - variables.M

----------------------------------------------------------------------------
\* C16: Capacity.add_constraints, run on the registry of a fleet with at
\* least one arrival, raises no error and emits, for every arrival i and
\* every exit edge l, a row "t-variable of i <= T" on a variable that the
\* registry allocated.
CapacityCalled == pc \in {"called", "error"} /\ query = [class |-> "Capacity"]

C16_CapacityBoundsEveryArrival ==
    (CapacityCalled /\ variables.arrivals # <<>>) =>
        /\ pc = "called"
        /\ \A a \in 1..Len(variables.arrivals), n \in 1..Len(variables.exit_edges) :
               \E k \in 1..Len(constraints) :
                   /\ constraints[k].sense = "<="
                   /\ constraints[k].rhs = variables.T
                   /\ DOMAIN constraints[k].coef \subseteq variables.t
                   /\ \A v \in DOMAIN constraints[k].coef : v[2] = variables.arrivals[a]

----------------------------------------------------------------------------
\* C17: on generated route data whose endpoints, origins and destinations
\* are graph nodes, every Gamma, Z, rho and t referenced by a row that the
\* six composed classes emitted is a variable of the registry, and a class
\* stops only on a missing edge parameter (in Speed), never on a variable
\* index that the registry lacks.
C17_NoFabricatedIndex ==
    Generated =>
        /\ \A k \in 1..Len(constraints) :
               DOMAIN constraints[k].coef \subseteq allocated(variables)
        /\ pc = "error" =>
               /\ pending # <<>>
               /\ Head(pending) = "Speed"
               /\ SomeEdgeParameterMissing

\* a finished build whose rows reference Gamma, Z and t variables
C17_Witness ==
    /\ Generated
    /\ pc = "optimize_model"
    /\ \A kind \in {"Gamma", "Z", "t"} :
           \E k \in 1..Len(constraints) :
               \E v \in DOMAIN constraints[k].coef : v[1] = kind

----------------------------------------------------------------------------
\* C18: for every permutation of the class list of constraints_setup, run
\* over the same registry, the set of emitted rows (names, coefficients,
\* senses, right-hand sides) is the one the listed order gives.

\* constraint_class(self.model, self.variables).add_constraints(), by name
class_result(name, vs) ==
    CASE name = "Domain" -> Domain_add_constraints(vs)
      [] name = "Sequencing" -> Sequencing_add_constraints(vs)
      [] name = "Overtaking" -> Overtaking_add_constraints(vs)
      [] name = "Release" -> Release_add_constraints(vs)
      [] name = "Speed" -> Speed_add_constraints(vs)
      [] name = "Separation" -> Separation_add_constraints(vs)

\* the rows in the model when the loop of constraints_setup over `order`
\* ends, normally or at the first class that raises
RECURSIVE constraints_setup_rows(_, _)
constraints_setup_rows(results, order) ==
    IF order = <<>> THEN <<>>
    ELSE results[Head(order)].rows
         \o (IF results[Head(order)].raised THEN <<>>
             ELSE constraints_setup_rows(results, Tail(order)))

ClassOrders ==
    {[k \in 1..Len(constraint_classes) |-> constraint_classes[p[k]]] :
        p \in Permutations(1..Len(constraint_classes))}

C18_ModulesCommute ==
    (pc = "constraints_setup" /\ pending = constraint_classes) =>
        LET results == [c \in Range(constraint_classes) |-> class_result(c, variables)]
            listed == Range(constraints_setup_rows(results, constraint_classes))
        IN \A order \in ClassOrders :
               Range(constraints_setup_rows(results, order)) = listed

----------------------------------------------------------------------------
\* C19: a second build from the same inputs (route generation, variable
\* allocation, constraint emission) ends with the same registry and the
\* same set of rows as the first, and find_paths' default path object is
\* the empty list it was before the first build.
BuildEnded == pc \in {"optimize_model", "error"}

----------------------------------------------------------------------------
----------------------------------------------------------------------------
\* C21: every path that find_paths(graph, origin, destination) returns
\* starts at origin, ends at destination, holds no node twice, and joins
\* consecutive nodes by a listed edge or the reverse of one; every node whose
\* edges are expanded is one of the graph's nodes; and the recursion ends:
\* each nested call has a path of distinct nodes, one longer than its
\* caller's, of at most |nodes| + 1 nodes.
C21_PathsWellFormed ==
    pc = "returned" =>
        LET g == query.graph_data
            calls == find_paths_calls(g, query.start, query.end, <<>>)
        IN /\ \A k \in 1..Len(paths) :
                  LET path == paths[k]
                  IN /\ path # <<>>
                     /\ path[1] = query.start
                     /\ path[Len(path)] = query.end
                     /\ \A a, b \in 1..Len(path) : a # b => path[a] # path[b]
                     /\ \A a \in 1..(Len(path) - 1) :
                            /\ \/ InSeq(<<path[a], path[a + 1]>>, g.edges)
                               \/ InSeq(<<path[a + 1], path[a]>>, g.edges)
                            /\ path[a] \in g.nodes
           /\ \A k \in 1..Len(calls) :
                  LET path == calls[k].path
                  IN /\ calls[k].loops => calls[k].start \in g.nodes
                     /\ \A a \in 1..(Len(path) - 1) : path[a] \in g.nodes
                     /\ \A a, b \in 1..Len(path) : a # b => path[a] # path[b]
                     /\ Len(path) <= Cardinality(g.nodes) + 1
           /\ \A k \in 1..Len(paths) :
                  \E n \in 1..Len(calls) : calls[n].path = paths[k] /\ ~calls[n].loops

\* a call that returned a path of three nodes on a graph with an edge to a
\* node outside "nodes", using one edge against its listed direction
C21_Witness ==
    /\ pc = "returned"
    /\ \E k \in 1..Len(query.graph_data.edges) :
           query.graph_data.edges[k][2] \notin query.graph_data.nodes
    /\ \E k \in 1..Len(paths) :
           /\ Len(paths[k]) >= 3
           /\ \E a \in 1..(Len(paths[k]) - 1) :
                  ~InSeq(<<paths[k][a], paths[k][a + 1]>>, query.graph_data.edges)

----------------------------------------------------------------------------
\* the route that aircraft i takes under the selection g
SelectedRoute(g, i) ==
    variables.routes[i][CHOOSE r \in 1..Len(variables.routes[i]) : g[<<"Gamma", i, r>>] = 1]

\* the row with the given name exists and, under the selections gi and gj
\* with Z[i,j,u] = 1 and a non-negative transit time of i along e, every
\* value of its remaining variables that satisfies it has t[i,u] <= t[j,u]
RowForcesOrder(name, gi, gj, i, j, u, e) ==
    /\ RowsNamed(name) # {}
    /\ LET row == RowNamed(name)
           zv == <<"Z", i, j, u>>
           Zs == {v \in DOMAIN row.coef : v[1] = "Z"} \cup {zv}
           Ts == {v \in DOMAIN row.coef : v[1] = "t"}
                     \cup {<<"t", i, e[1]>>, <<"t", i, e[2]>>, <<"t", j, u>>}
       IN \A zf \in [Zs -> {0, 1}] : \A tf \in [Ts -> Times] :
              (/\ zf[zv] = 1
               /\ tf[<<"t", i, e[1]>>] <= tf[<<"t", i, e[2]>>]
               /\ row_holds(row, gi @@ gj @@ zf @@ tf))
                  => tf[<<"t", i, u>>] <= tf[<<"t", j, u>>]

\* C22: once Domain, Sequencing and Separation have run, under every route
\* selection that satisfies the route-selection rows and picks for i and j
\* routes of at least one edge, every node u on both selected routes is an
\* end of an edge of i's route, and the separation row of that edge (equation
\* (23) when the edge leaves u, equation (24) when it enters u) admits, with
\* Z[i,j,u] = 1 and a non-negative transit time of i along the edge, only
\* times with t[i,u] <= t[j,u].
C22_OrderAgreesWithTimes ==
    (Done("Domain") /\ Done("Sequencing") /\ Done("Separation")) =>
        \A p \in Pairs :
            LET i == p[1]
                j == p[2]
                Gi == GammaVals(i)
                Gj == GammaVals(j)
            IN \A gi \in Gi : \A gj \in Gj :
                   LET ri == SelectedRoute(gi, i)
                       rj == SelectedRoute(gj, j)
                   IN (ri.edges # <<>> /\ rj.edges # <<>>) =>
                          \A u \in Range(ri.nodes) \cap Range(rj.nodes) :
                              /\ \E e \in Range(ri.edges) : e[1] = u \/ e[2] = u
                              /\ \A e \in Range(ri.edges) :
                                     /\ e[1] = u =>
                                            RowForcesOrder(<<"separation", i, j, e[1], e[2]>>,
                                                           gi, gj, i, j, u, e)
                                     /\ e[2] = u =>
                                            RowForcesOrder(<<"separation_reverse", j, i, e[1], e[2]>>,
                                                           gi, gj, i, j, u, e)

\* a finished build in which two aircraft select routes of at least one edge
\* that meet at a node other than their common last node, where i's route
\* has an edge into the node and an edge out of it
C22_Witness ==
    /\ Done("Domain") /\ Done("Sequencing") /\ Done("Separation")
    /\ \E p \in Pairs : \E gi \in GammaVals(p[1]) : \E gj \in GammaVals(p[2]) :
           LET ri == SelectedRoute(gi, p[1])
               rj == SelectedRoute(gj, p[2])
           IN /\ ri.edges # <<>> /\ rj.edges # <<>>
              /\ \E u \in Range(ri.nodes) \cap Range(rj.nodes) :
                     /\ \E e \in Range(ri.edges) : e[1] = u
                     /\ \E e \in Range(ri.edges) : e[2] = u
                     /\ \E e \in Range(ri.edges) :
                            /\ e[2] = u
                            /\ \E tf \in [{<<"t", p[1], e[1]>>, <<"t", p[1], u>>, <<"t", p[2], u>>} -> Times] :
                                   /\ tf[<<"t", p[1], u>>] < tf[<<"t", p[2], u>>]
                                   /\ row_holds(RowNamed(<<"separation_reverse", p[2], p[1], e[1], e[2]>>),
                                                gi @@ gj @@ (<<"Z", p[1], p[2], u>> :> 1) @@ tf)

====
